---- MODULE Spec2Model ----
(***************************************************************************)
(* Model of farm/modeling/predictions.py: the QACandidate answer           *)
(* hypothesis (span_to_string, add_cls, to_doc_level, add_answer) and the  *)
(* QAPred aggregate (answers_to_json, to_json, to_squad_eval,              *)
(* create_context).                                                        *)
(*                                                                         *)
(* Python values are modelled as follows.  A nullable field holds None     *)
(* (the empty tuple) or Some(v) (a one-element tuple).  A text that is     *)
(* sliced or stripped is a sequence of characters; an answer string that   *)
(* is only stored and compared is a TLA+ string.  A call that can raise    *)
(* returns a record whose exc field names the exception ("none" when the   *)
(* call returns normally).                                                 *)
(***************************************************************************)
EXTENDS Integers, Sequences, FiniteSets, TLC

VARIABLES
    cand,                 \* the QACandidate the candidate operations act on
    op,                   \* the last call made: its name and arguments
    logged,               \* number of logger.error records the last call wrote
    overridden,           \* history: None until add_cls first rewrites the answer,
                          \* then Some(answer_type held just before that rewrite)
    token_offsets,        \* QAPred.token_offsets
    context,              \* QAPred.context (the clear text)
    context_window_size,  \* QAPred.context_window_size
    prediction,           \* QAPred.prediction, the list of candidates
    ret                   \* the value returned by the last call, None before it

vars == <<cand, op, logged, overridden, token_offsets, context,
          context_window_size, prediction, ret>>

(***************************************************************************)
(* Bounds of the model.                                                    *)
(***************************************************************************)
MaxOffset == 0       \* offsets of a candidate's life range over -1 .. MaxOffset
MaxTokens == 2       \* token tables hold 0 .. MaxTokens tokens
MaxLen == 3          \* texts given to span_to_string hold 0 .. MaxLen characters
MaxText == 6         \* texts given to create_context hold 0 .. MaxText characters
MaxWindow == 5       \* context_window_size ranges over 0 .. MaxWindow
MaxChar == 7         \* character spans given to create_context: 0 .. MaxChar
MaxCands == 2        \* an aggregate holds 0 .. MaxCands candidates

None == <<>>
Some(v) == <<v>>

Min(a, b) == IF a <= b THEN a ELSE b
Max(a, b) == IF a >= b THEN a ELSE b

(***************************************************************************)
(* Python primitives used by the code.                                     *)
(***************************************************************************)
\* Half of x rounded up instead of truncated.
IntHalfUp(x) == (x + 1) \div 2

\* int(x / 2): true division followed by truncation toward zero.
IntHalf(x) == IF x >= 0 THEN x \div 2 ELSE -((-x) \div 2)

\* Whether seq[i] is a valid Python subscript (negative i counts from the end).
IndexOk(seq, i) == -Len(seq) <= i /\ i < Len(seq)

\* seq[i] for a valid Python subscript i.
Index(seq, i) == IF i >= 0 THEN seq[i + 1] ELSE seq[Len(seq) + i + 1]

\* A slice bound as Python normalises it: negative bounds count from the end,
\* and every bound is clamped into 0 .. len.
SliceBound(len, i) == IF i < 0 THEN Max(len + i, 0) ELSE Min(i, len)

\* text[a:b]
Slice(text, a, b) ==
    LET lo == SliceBound(Len(text), a)
        hi == SliceBound(Len(text), b)
    IN  IF lo < hi THEN SubSeq(text, lo + 1, hi) ELSE <<>>

Whitespace == {" "}

RECURSIVE LStrip(_)
LStrip(text) ==
    IF text # <<>> /\ Head(text) \in Whitespace THEN LStrip(Tail(text)) ELSE text

RECURSIVE RStrip(_)
RStrip(text) ==
    IF text # <<>> /\ text[Len(text)] \in Whitespace
    THEN RStrip(SubSeq(text, 1, Len(text) - 1))
    ELSE text

\* The text returned as sliced, without the call of strip().
StripNothing(text) == text

\* str.strip()
Strip(text) == RStrip(LStrip(text))

(***************************************************************************)
(* QACandidate                                                             *)
(***************************************************************************)
QACandidate(answer_type, score, offset_answer_start, offset_answer_end, offset_unit, aggregation_level, probability) ==
    [answer_type |-> answer_type,
     score |-> score,
     probability |-> probability,
     answer |-> None,
     offset_answer_start |-> offset_answer_start,
     offset_answer_end |-> offset_answer_end,
     answer_support |-> None,
     offset_answer_support_start |-> None,
     offset_answer_support_end |-> None,
     offset_unit |-> offset_unit,
     aggregation_level |-> aggregation_level]

Raise(exc) == [exc |-> exc, text |-> <<>>, start_ch |-> 0, end_ch |-> 0]
Return(text, start_ch, end_ch) ==
    [exc |-> "none", text |-> text, start_ch |-> start_ch, end_ch |-> end_ch]

\* The boundary advanced by one token but not clamped.
EndTokenUnclamped(end_t, n_tokens) == end_t + 1

\* The exclusive token boundary after the span, clamped to the token count.
EndToken(end_t, n_tokens) == Min(end_t + 1, n_tokens)

\* The no-answer test made after end_t has been advanced.
IsNoAnswerSpanAfterAdvance(start_t, end_t) == start_t = -1 /\ end_t + 1 = -1

\* The offsets are the no-answer sentinel.
IsNoAnswerSpan(start_t, end_t) == start_t = -1 /\ end_t = -1

span_to_string(self, offsets, clear_text) ==
    LET start_t == self.offset_answer_start
        n_tokens == Len(offsets)
        end_t == EndToken(self.offset_answer_end, n_tokens)
    IN  IF self.offset_unit # "token" THEN Raise("AssertionError")
        ELSE IF IsNoAnswerSpan(start_t, self.offset_answer_end) THEN Return(<<>>, 0, 0)
        ELSE IF ~IndexOk(offsets, start_t) THEN Raise("IndexError")
        ELSE IF end_t # n_tokens /\ ~IndexOk(offsets, end_t) THEN Raise("IndexError")
        ELSE LET start_ch == Index(offsets, start_t)
                 end_ch == IF end_t = n_tokens THEN Len(clear_text)
                           ELSE Index(offsets, end_t)
             IN  Return(Strip(Slice(clear_text, start_ch, end_ch)), start_ch, end_ch)

\* Overrides without the test that spares a "no_answer" answer.
OverridesAnyAnswer(self, predicted_class) ==
    predicted_class \in {"yes", "no"}

\* The condition under which add_cls rewrites the candidate.
Overrides(self, predicted_class) ==
    predicted_class \in {"yes", "no"} /\ self.answer # Some("no_answer")

\* add_cls with the support text taken after the answer has been rewritten.
add_cls_support_after(self, predicted_class) ==
    IF Overrides(self, predicted_class)
    THEN [self EXCEPT !.answer_support = Some(predicted_class),
                      !.answer = Some(predicted_class),
                      !.answer_type = predicted_class,
                      !.offset_answer_support_start = Some(self.offset_answer_start),
                      !.offset_answer_support_end = Some(self.offset_answer_end)]
    ELSE self

add_cls(self, predicted_class) ==
    IF Overrides(self, predicted_class)
    THEN [self EXCEPT !.answer_support = self.answer,
                      !.answer = Some(predicted_class),
                      !.answer_type = predicted_class,
                      !.offset_answer_support_start = Some(self.offset_answer_start),
                      !.offset_answer_support_end = Some(self.offset_answer_end)]
    ELSE self

to_doc_level(self, start, end) ==
    [self EXCEPT !.offset_answer_start = start,
                 !.offset_answer_end = end,
                 !.aggregation_level = "document"]

\* add_answer that also writes answer_type when the string is empty.
add_answer_sets_type(self, string) ==
    IF string = ""
    THEN [self EXCEPT !.answer = Some("no_answer"), !.answer_type = "no_answer"]
    ELSE [self EXCEPT !.answer = Some(string)]

add_answer(self, string) ==
    IF string = ""
    THEN [self EXCEPT !.answer = Some("no_answer")]
    ELSE [self EXCEPT !.answer = Some(string)]

\* add_answer_errors that reports only when both offsets disagree with the string.
add_answer_errors_both(self, string) ==
    IF string = ""
    THEN IF self.offset_answer_start # -1 /\ self.offset_answer_end # -1 THEN 1 ELSE 0
    ELSE IF self.offset_answer_start = -1 /\ self.offset_answer_end = -1 THEN 1 ELSE 0

\* Number of logger.error records add_answer writes.
add_answer_errors(self, string) ==
    IF string = ""
    THEN IF self.offset_answer_start # -1 \/ self.offset_answer_end # -1 THEN 1 ELSE 0
    ELSE IF self.offset_answer_start = -1 \/ self.offset_answer_end = -1 THEN 1 ELSE 0

(***************************************************************************)
(* QAPred                                                                  *)
(***************************************************************************)
\* create_context with a single clamp: the overhang is not given to the other side.
create_context_single_clamp(window_size, ans_start_ch, ans_end_ch, clear_text) ==
    IF ans_start_ch = 0 /\ ans_end_ch = 0
    THEN [text |-> <<>>, start_ch |-> 0, end_ch |-> 0]
    ELSE LET len_text == Len(clear_text)
             midpoint == IntHalf(ans_end_ch - ans_start_ch) + ans_start_ch
             half_window == IntHalf(window_size)
             context_start_ch == Max(0, midpoint - half_window)
             context_end_ch == Min(len_text, midpoint + half_window)
         IN  [text |-> Slice(clear_text, context_start_ch, context_end_ch),
              start_ch |-> context_start_ch,
              end_ch |-> context_end_ch]

\* create_context without the clamps that follow the redistribution.
create_context_no_final_clamp(window_size, ans_start_ch, ans_end_ch, clear_text) ==
    IF ans_start_ch = 0 /\ ans_end_ch = 0
    THEN [text |-> <<>>, start_ch |-> 0, end_ch |-> 0]
    ELSE LET len_text == Len(clear_text)
             midpoint == IntHalf(ans_end_ch - ans_start_ch) + ans_start_ch
             half_window == IntHalf(window_size)
             start0 == midpoint - half_window
             end0 == midpoint + half_window
             overhang_start == Max(0, -start0)
             overhang_end == Max(0, end0 - len_text)
             context_start_ch == start0 - overhang_end
             context_end_ch == end0 + overhang_start
         IN  [text |-> Slice(clear_text, context_start_ch, context_end_ch),
              start_ch |-> context_start_ch,
              end_ch |-> context_end_ch]

create_context(window_size, ans_start_ch, ans_end_ch, clear_text) ==
    IF ans_start_ch = 0 /\ ans_end_ch = 0
    THEN [text |-> <<>>, start_ch |-> 0, end_ch |-> 0]
    ELSE LET len_text == Len(clear_text)
             midpoint == IntHalf(ans_end_ch - ans_start_ch) + ans_start_ch
             half_window == IntHalf(window_size)
             start0 == midpoint - half_window
             end0 == midpoint + half_window
             overhang_start == Max(0, -start0)
             overhang_end == Max(0, end0 - len_text)
             context_start_ch == Max(0, start0 - overhang_end)
             context_end_ch == Min(len_text, end0 + overhang_start)
         IN  [text |-> Slice(clear_text, context_start_ch, context_end_ch),
              start_ch |-> context_start_ch,
              end_ch |-> context_end_ch]

\* AnswerRecord whose squad mode blanks every answer, not only "no_answer".
AnswerRecordSquadBlanksAll(qa_candidate, span, window_size, clear_text, id, squad) ==
    LET string == IF squad THEN Some("") ELSE qa_candidate.answer
        ctx == create_context(window_size, span.start_ch, span.end_ch, clear_text)
    IN  [score |-> qa_candidate.score,
         probability |-> None,
         answer |-> string,
         offset_answer_start |-> span.start_ch,
         offset_answer_end |-> span.end_ch,
         context |-> ctx.text,
         offset_context_start |-> ctx.start_ch,
         offset_context_end |-> ctx.end_ch,
         document_id |-> id]

\* The record answers_to_json builds for one candidate whose span resolved to
\* the character offsets of span.
AnswerRecord(qa_candidate, span, window_size, clear_text, id, squad) ==
    LET string == IF squad /\ qa_candidate.answer = Some("no_answer")
                  THEN Some("") ELSE qa_candidate.answer
        ctx == create_context(window_size, span.start_ch, span.end_ch, clear_text)
    IN  [score |-> qa_candidate.score,
         probability |-> None,
         answer |-> string,
         offset_answer_start |-> span.start_ch,
         offset_answer_end |-> span.end_ch,
         context |-> ctx.text,
         offset_context_start |-> ctx.start_ch,
         offset_context_end |-> ctx.end_ch,
         document_id |-> id]

\* answers_to_json that leaves no-answer candidates out of the list.
answers_to_json_skip_no_answer(candidates, offsets, clear_text, window_size, id, squad) ==
    LET spans == [i \in 1 .. Len(candidates) |->
                     span_to_string(candidates[i], offsets, clear_text)]
        raising == {i \in 1 .. Len(candidates) : spans[i].exc # "none"}
        kept == SelectSeq([i \in 1 .. Len(candidates) |-> i],
                          LAMBDA i : ~IsNoAnswerSpan(candidates[i].offset_answer_start,
                                                     candidates[i].offset_answer_end))
    IN  IF raising # {}
        THEN [exc |-> spans[CHOOSE i \in raising : \A j \in raising : i <= j].exc,
              answers |-> <<>>]
        ELSE [exc |-> "none",
              answers |-> [k \in 1 .. Len(kept) |->
                              AnswerRecord(candidates[kept[k]], spans[kept[k]],
                                           window_size, clear_text, id, squad)]]

\* The positions of the candidates in descending order of score, ties in the
\* order given.
ByScore(candidates) ==
    LET n == Len(candidates)
    IN  CHOOSE p \in [1 .. n -> 1 .. n] :
           \A i \in 1 .. n, j \in 1 .. n :
              i < j => \/ candidates[p[i]].score > candidates[p[j]].score
                       \/ /\ candidates[p[i]].score = candidates[p[j]].score
                          /\ p[i] < p[j]

\* answers_to_json that walks the candidates in descending order of score.
answers_to_json_by_score(candidates, offsets, clear_text, window_size, id, squad) ==
    LET spans == [i \in 1 .. Len(candidates) |->
                     span_to_string(candidates[i], offsets, clear_text)]
        raising == {i \in 1 .. Len(candidates) : spans[i].exc # "none"}
        order == ByScore(candidates)
    IN  IF raising # {}
        THEN [exc |-> spans[CHOOSE i \in raising : \A j \in raising : i <= j].exc,
              answers |-> <<>>]
        ELSE [exc |-> "none",
              answers |-> [k \in 1 .. Len(candidates) |->
                              AnswerRecord(candidates[order[k]], spans[order[k]],
                                           window_size, clear_text, id, squad)]]

\* The loop stops at the first candidate whose span_to_string raises, and the
\* exception goes to the caller; otherwise one record per candidate, in order.
answers_to_json(candidates, offsets, clear_text, window_size, id, squad) ==
    LET spans == [i \in 1 .. Len(candidates) |->
                     span_to_string(candidates[i], offsets, clear_text)]
        raising == {i \in 1 .. Len(candidates) : spans[i].exc # "none"}
    IN  IF raising # {}
        THEN [exc |-> spans[CHOOSE i \in raising : \A j \in raising : i <= j].exc,
              answers |-> <<>>]
        ELSE [exc |-> "none",
              answers |-> [i \in 1 .. Len(candidates) |->
                              AnswerRecord(candidates[i], spans[i], window_size,
                                           clear_text, id, squad)]]

\* The other fields of the aggregate that to_json writes into its envelope.
Question == "q"
GroundTruthAnswer == None
NoAnswerGap == 0

\* to_json: the answers under the "task": "qa" envelope; an exception of
\* answers_to_json goes through to the caller.
to_json(candidates, offsets, clear_text, window_size, id, squad) ==
    LET answers == answers_to_json(candidates, offsets, clear_text, window_size,
                                   id, squad)
    IN  IF answers.exc # "none"
        THEN [exc |-> answers.exc, task |-> None, predictions |-> <<>>]
        ELSE [exc |-> "none",
              task |-> Some("qa"),
              predictions |-> <<[question |-> Question,
                                 question_id |-> id,
                                 ground_truth |-> GroundTruthAnswer,
                                 answers |-> answers.answers,
                                 no_ans_gap |-> NoAnswerGap]>>]

to_squad_eval(candidates, offsets, clear_text, window_size, id) ==
    to_json(candidates, offsets, clear_text, window_size, id, TRUE)

(***************************************************************************)
(* Input domains.                                                          *)
(***************************************************************************)
OffsetUnits == {"token", "char"}
Scores == {1, 2}
Probabilities == {None, Some(1)}
Offsets == -1 .. MaxOffset
Classes == {"yes", "no", "no_answer", "span"}
AnswerStrings == {"", "Paris"}

Chars == {" ", "a"}
Texts(max_len) == UNION {[1 .. n -> Chars] : n \in 0 .. max_len}

NonDecreasing(seq) == \A i \in 1 .. Len(seq) - 1 : seq[i] <= seq[i + 1]

\* Token tables for a text: one start position per token, non-decreasing.
TokenTables(clear_text) ==
    {t \in UNION {[1 .. n -> 0 .. Len(clear_text)] : n \in 0 .. MaxTokens} :
        NonDecreasing(t)}

\* A candidate as the QA head creates it: no_answer at the sentinel offsets,
\* else span ("yes" and "no" are written by add_cls).
NewCandidate(start, end, unit, score, probability) ==
    QACandidate(IF start = -1 /\ end = -1 THEN "no_answer" ELSE "span",
                score, start, end, unit, "passage", probability)

Call(name, args) == [name |-> name, args |-> args, repeat |-> FALSE]

NoAggregate ==
    /\ token_offsets = <<>>
    /\ context = <<>>
    /\ context_window_size = 0
    /\ prediction = <<>>

NoCandidate ==
    /\ cand = None
    /\ logged = 0
    /\ overridden = None

(***************************************************************************)
(* Spec: the life of one candidate under add_answer, add_cls and           *)
(* to_doc_level.                                                           *)
(***************************************************************************)
Init ==
    /\ cand \in {NewCandidate(a, b, u, s, p) :
                    a \in Offsets, b \in Offsets, u \in OffsetUnits,
                    s \in Scores, p \in Probabilities}
    /\ op = Call("__init__", <<>>)
    /\ logged = 0
    /\ overridden = None
    /\ NoAggregate
    /\ ret = None

Invoke(name, args) ==
    op' = [name |-> name, args |-> args,
           repeat |-> (op.name = name /\ op.args = args)]

AddCls(predicted_class) ==
    /\ cand' = add_cls(cand, predicted_class)
    /\ Invoke("add_cls", <<predicted_class>>)
    /\ logged' = 0
    /\ overridden' = IF overridden = None /\ Overrides(cand, predicted_class)
                     THEN Some(cand.answer_type) ELSE overridden
    /\ UNCHANGED <<token_offsets, context, context_window_size, prediction, ret>>

ToDocLevel(start, end) ==
    /\ cand' = to_doc_level(cand, start, end)
    /\ Invoke("to_doc_level", <<start, end>>)
    /\ logged' = 0
    /\ UNCHANGED <<overridden, token_offsets, context, context_window_size,
                   prediction, ret>>

AddAnswer(string) ==
    /\ cand' = add_answer(cand, string)
    /\ Invoke("add_answer", <<string>>)
    /\ logged' = add_answer_errors(cand, string)
    /\ UNCHANGED <<overridden, token_offsets, context, context_window_size,
                   prediction, ret>>

Next ==
    \/ \E c \in Classes : AddCls(c)
    \/ \E a \in Offsets, b \in Offsets : ToDocLevel(a, b)
    \/ \E s \in AnswerStrings : AddAnswer(s)

Spec == Init /\ [][Next]_vars

(***************************************************************************)
(* SpecSpan: span_to_string applied to a candidate, a token table and a    *)
(* text.                                                                   *)
(***************************************************************************)
TokenOffsets == -1 .. MaxTokens

InitSpan ==
    /\ context \in Texts(MaxLen)
    /\ token_offsets \in TokenTables(context)
    /\ cand \in {NewCandidate(a, b, u, 1, None) :
                    a \in TokenOffsets, b \in TokenOffsets, u \in OffsetUnits}
    /\ op = Call("__init__", <<>>)
    /\ logged = 0
    /\ overridden = None
    /\ context_window_size = 0
    /\ prediction = <<>>
    /\ ret = None

SpanToString ==
    /\ op.name = "__init__"
    /\ ret' = Some(span_to_string(cand, token_offsets, context))
    /\ op' = Call("span_to_string", <<>>)
    /\ UNCHANGED <<cand, logged, overridden, token_offsets, context,
                   context_window_size, prediction>>

NextSpan == SpanToString

SpecSpan == InitSpan /\ [][NextSpan]_vars

(***************************************************************************)
(* SpecWindow: create_context applied to a character span and a text.      *)
(***************************************************************************)
InitWindow ==
    /\ context \in Texts(MaxText)
    /\ context_window_size \in 0 .. MaxWindow
    /\ token_offsets = <<>>
    /\ prediction = <<>>
    /\ NoCandidate
    /\ op = Call("__init__", <<>>)
    /\ ret = None

CreateContext(ans_start_ch, ans_end_ch) ==
    /\ op.name = "__init__"
    /\ ret' = Some(create_context(context_window_size, ans_start_ch, ans_end_ch,
                                  context))
    /\ op' = Call("create_context", <<ans_start_ch, ans_end_ch>>)
    /\ UNCHANGED <<cand, logged, overridden, token_offsets, context,
                   context_window_size, prediction>>

NextWindow == \E a \in 0 .. MaxChar, b \in 0 .. MaxChar : CreateContext(a, b)

SpecWindow == InitWindow /\ [][NextWindow]_vars

(***************************************************************************)
(* SpecJson: answers_to_json, to_json and to_squad_eval applied to an      *)
(* aggregate.                                                              *)
(***************************************************************************)
\* Offsets of the candidates of an aggregate: the sentinel, the first token,
\* and a pair with exactly one offset equal to -1.
JsonSpans == {<<-1, -1>>, <<0, 0>>, <<-1, 0>>}

\* Candidates as the QA head leaves them: created, then given their answer.
JsonCandidates ==
    {add_answer(NewCandidate(sp[1], sp[2], u, s, p),
                IF sp = <<-1, -1>> THEN "" ELSE "Paris") :
        sp \in JsonSpans, u \in OffsetUnits, s \in Scores, p \in Probabilities}

JsonTexts == {<<>>, <<"a">>, <<"a", " ", "a">>}
JsonTables(clear_text) == {<<>>, <<0>>, <<0, Len(clear_text)>>}
JsonWindows == {0, 2}
DocumentId == "doc"

InitJson ==
    /\ context \in JsonTexts
    /\ token_offsets \in JsonTables(context)
    /\ context_window_size \in JsonWindows
    /\ prediction \in UNION {[1 .. n -> JsonCandidates] : n \in 0 .. MaxCands}
    /\ NoCandidate
    /\ op = Call("__init__", <<>>)
    /\ ret = None

AnswersToJson(squad) ==
    /\ op.name = "__init__"
    /\ ret' = Some(answers_to_json(prediction, token_offsets, context,
                                   context_window_size, DocumentId, squad))
    /\ op' = Call("answers_to_json", <<squad>>)
    /\ UNCHANGED <<cand, logged, overridden, token_offsets, context,
                   context_window_size, prediction>>

ToJson(squad) ==
    /\ op.name = "__init__"
    /\ ret' = Some(to_json(prediction, token_offsets, context, context_window_size,
                           DocumentId, squad))
    /\ op' = Call("to_json", <<squad>>)
    /\ UNCHANGED <<cand, logged, overridden, token_offsets, context,
                   context_window_size, prediction>>

ToSquadEval ==
    /\ op.name = "__init__"
    /\ ret' = Some(to_squad_eval(prediction, token_offsets, context,
                                 context_window_size, DocumentId))
    /\ op' = Call("to_squad_eval", <<>>)
    /\ UNCHANGED <<cand, logged, overridden, token_offsets, context,
                   context_window_size, prediction>>

NextJson ==
    \/ \E squad \in BOOLEAN : AnswersToJson(squad)
    \/ \E squad \in BOOLEAN : ToJson(squad)
    \/ ToSquadEval

SpecJson == InitJson /\ [][NextJson]_vars

(***************************************************************************)
(* Properties of the candidate operations (checked under Spec).            *)
(***************************************************************************)
YesNo == {"yes", "no"}

SupportFields(c) ==
    <<c.answer_support, c.offset_answer_support_start, c.offset_answer_support_end>>

\* C1: add_cls(label) with label yes or no, on a candidate whose answer is not
\* "no_answer", sets answer_type and answer to the label, answer_support to
\* the answer held before the call and the support offsets to the offsets
\* held before the call; the offsets, score, offset_unit and
\* aggregation_level stay as they were.
C1_OverrideMovesAnswerToSupport ==
    [][\A label \in YesNo :
          (op'.name = "add_cls" /\ op'.args = <<label>>
             /\ cand.answer # Some("no_answer"))
          => /\ cand'.answer_type = label
             /\ cand'.answer = Some(label)
             /\ cand'.answer_support = cand.answer
             /\ cand'.offset_answer_support_start = Some(cand.offset_answer_start)
             /\ cand'.offset_answer_support_end = Some(cand.offset_answer_end)
             /\ cand'.offset_answer_start = cand.offset_answer_start
             /\ cand'.offset_answer_end = cand.offset_answer_end
             /\ cand'.score = cand.score
             /\ cand'.offset_unit = cand.offset_unit
             /\ cand'.aggregation_level = cand.aggregation_level]_vars

\* C1 witness: the answer "Paris" of a span at offsets (0, 0) has been
\* overridden by the label "yes".
C1_Witness ==
    /\ op.name = "add_cls" /\ op.args = <<"yes">>
    /\ cand.answer_type = "yes"
    /\ cand.answer = Some("yes")
    /\ cand.answer_support = Some("Paris")
    /\ cand.offset_answer_support_start = Some(0)
    /\ cand.offset_answer_support_end = Some(0)

\* C2: on a candidate whose answer_type is no_answer, with offsets (-1, -1),
\* add_cls with any label leaves answer_type, answer and the support fields
\* unchanged, whether or not add_answer has been called.
C2_NoAnswerTypeAlwaysWins ==
    [][(op'.name = "add_cls"
          /\ cand.answer_type = "no_answer"
          /\ cand.offset_answer_start = -1 /\ cand.offset_answer_end = -1)
       => /\ cand'.answer_type = cand.answer_type
          /\ cand'.answer = cand.answer
          /\ SupportFields(cand') = SupportFields(cand)]_vars

\* C3: add_cls changes no field of the candidate when the label is neither
\* yes nor no, and when the answer is "no_answer" whatever the label; so a
\* second call with the same label other than yes/no leaves the candidate as
\* the first call left it.
C3_AddClsNoOp ==
    [][op'.name = "add_cls"
       => /\ (op'.args[1] \notin YesNo \/ cand.answer = Some("no_answer"))
                => cand' = cand
          /\ (op'.repeat /\ op'.args[1] \notin YesNo) => cand' = cand]_vars

\* C3 witness: add_cls("span") has been called twice in a row on a candidate
\* whose answer is "Paris", and nothing was moved to the support fields.
C3_Witness ==
    /\ op.name = "add_cls" /\ op.args = <<"span">> /\ op.repeat
    /\ cand.answer = Some("Paris")
    /\ cand.answer_type = "span"
    /\ cand.answer_support = None

\* C4: once add_cls has rewritten answer_type to yes or no from a kind other
\* than no_answer, the support fields are non-null and hold the answer and
\* offsets the candidate had before the first rewrite: the first rewrite
\* fills them from the candidate, and no later call changes them.
C4_SupportHoldsFirstSpan ==
    [][(overridden' # None /\ overridden' # Some("no_answer")
          /\ cand'.answer_type \in YesNo)
       => IF overridden = None
          THEN /\ cand'.answer_support # None
               /\ cand'.answer_support = cand.answer
               /\ cand'.offset_answer_support_start = Some(cand.offset_answer_start)
               /\ cand'.offset_answer_support_end = Some(cand.offset_answer_end)
          ELSE SupportFields(cand') = SupportFields(cand)]_vars

(***************************************************************************)
(* Properties of span_to_string (checked under SpecSpan).                  *)
(***************************************************************************)
Result == ret[1]
SpanCalled == op.name = "span_to_string"
NTokens == Len(token_offsets)
StartT == cand.offset_answer_start
EndT == cand.offset_answer_end

\* The character offset the exclusive end of the span resolves to.
ExpectedEndCh ==
    IF EndT + 1 < NTokens THEN token_offsets[EndT + 2] ELSE Len(context)

\* C5: for a token-unit candidate with 0 <= offset_start <= offset_end and
\* offset_start < n_tokens, span_to_string returns start_char =
\* token_offsets[offset_start], and end_char = token_offsets[offset_end + 1]
\* when offset_end + 1 < n_tokens, else the length of the text; a span that
\* ends on or past the last token is not an error.
C5_ResolvedOffsets ==
    (SpanCalled /\ cand.offset_unit = "token"
        /\ 0 <= StartT /\ StartT <= EndT /\ StartT < NTokens)
    => /\ Result.exc = "none"
       /\ Result.start_ch = token_offsets[StartT + 1]
       /\ Result.end_ch = ExpectedEndCh

\* C5 witness: a span whose end lies past the last token resolved to the end
\* of the text, beyond the start of the last token.
C5_Witness ==
    /\ SpanCalled /\ cand.offset_unit = "token"
    /\ StartT = 1 /\ EndT = NTokens /\ NTokens = 2
    /\ Result.exc = "none"
    /\ Result.start_ch = token_offsets[2]
    /\ Result.end_ch = Len(context)
    /\ Len(context) > token_offsets[2]

ValidSpan ==
    /\ cand.offset_unit = "token"
    /\ 0 <= StartT /\ StartT <= EndT /\ EndT < NTokens

\* C6 as claimed: for every valid span the returned substring has length
\* token_offsets[end_t + 1] - token_offsets[start_t] (or up to the end of the
\* text), whitespace at the span boundaries included.
C6_LengthIsOffsetDifference ==
    (SpanCalled /\ ValidSpan)
    => Len(Result.text) = ExpectedEndCh - token_offsets[StartT + 1]

IsWhitespace(ch) == ch = " "

\* trimmed is text without its leading and trailing whitespace.
IsTrimOf(trimmed, text) ==
    /\ \E i \in 1 .. Len(text) + 1, j \in 0 .. Len(text) :
          /\ trimmed = SubSeq(text, i, j)
          /\ \A k \in 1 .. Len(text) : (k < i \/ k > j) => IsWhitespace(text[k])
    /\ trimmed # <<>>
          => ~IsWhitespace(trimmed[1]) /\ ~IsWhitespace(trimmed[Len(trimmed)])

\* C6 amended: for every valid span the returned character offsets differ by
\* token_offsets[end_t + 1] - token_offsets[start_t] (or reach the end of the
\* text), and the returned substring is that slice of the text with leading
\* and trailing whitespace removed: it is as long as the slice exactly when
\* the slice neither starts nor ends with whitespace, and shorter otherwise.
C6_TrimmedSlice ==
    (SpanCalled /\ ValidSpan)
    => LET start_ch == token_offsets[StartT + 1]
           slice == SubSeq(context, start_ch + 1, ExpectedEndCh)
       IN  /\ Result.exc = "none"
           /\ Result.end_ch - Result.start_ch = ExpectedEndCh - start_ch
           /\ IsTrimOf(Result.text, slice)
           /\ Len(Result.text) <= Len(slice)
           /\ (Len(Result.text) = Len(slice))
                 <=> (slice = <<>> \/ (~IsWhitespace(slice[1])
                                         /\ ~IsWhitespace(slice[Len(slice)])))

\* C6 witness: a valid span over "a " was returned as "a", one character
\* shorter than the distance between its character offsets.
C6_Witness ==
    /\ SpanCalled /\ ValidSpan
    /\ Result.exc = "none"
    /\ Result.text = <<"a">>
    /\ Result.start_ch = 0 /\ Result.end_ch = 2
    /\ SubSeq(context, 1, 2) = <<"a", " ">>

\* C7: for a token-unit candidate with both offsets -1, span_to_string
\* returns ("", 0, 0) whatever the token table (the empty one included) and
\* whatever the text.
C7_NoAnswerSpan ==
    (SpanCalled /\ cand.offset_unit = "token" /\ StartT = -1 /\ EndT = -1)
    => Result = [exc |-> "none", text |-> <<>>, start_ch |-> 0, end_ch |-> 0]

\* C7 witness: the call returned ("", 0, 0) with an empty token table and a
\* text that is not empty.
C7_Witness ==
    /\ SpanCalled /\ cand.offset_unit = "token" /\ StartT = -1 /\ EndT = -1
    /\ token_offsets = <<>>
    /\ context # <<>>
    /\ Result.exc = "none" /\ Result.text = <<>>
    /\ Result.start_ch = 0 /\ Result.end_ch = 0

(***************************************************************************)
(* Properties of create_context (checked under SpecWindow).                *)
(***************************************************************************)
WindowCalled == op.name = "create_context"
AnsStart == op.args[1]
AnsEnd == op.args[2]

\* A span strictly inside a text longer than the window.
InnerSpan ==
    /\ 0 < AnsStart /\ AnsStart < AnsEnd /\ AnsEnd < Len(context)
    /\ Len(context) > context_window_size

C9_ShortTextReturnedWhole ==
    (WindowCalled /\ Len(context) < context_window_size
        /\ ~(AnsStart = 0 /\ AnsEnd = 0))
    => /\ Result.text = context
       /\ Result.start_ch = 0
       /\ Result.end_ch = Len(context)

\* C9 witness: a span wholly beyond the end of a text of 3 characters, with
\* window size 5, returned the whole text.
C9_Witness ==
    /\ WindowCalled
    /\ Len(context) = 3 /\ context_window_size = 5
    /\ AnsStart = 6 /\ AnsEnd = 7
    /\ Result.text = context /\ Result.start_ch = 0 /\ Result.end_ch = 3

(***************************************************************************)
(* Properties of answers_to_json (checked under SpecJson).                 *)
(***************************************************************************)
JsonCalled == op.name = "answers_to_json"

Resolvable(c) ==
    /\ c.offset_unit = "token"
    /\ c.offset_answer_end >= -1
    /\ \/ c.offset_answer_start = -1 /\ c.offset_answer_end = -1
       \/ /\ -Len(token_offsets) <= c.offset_answer_start
          /\ c.offset_answer_start < Len(token_offsets)

ExpectedStartCh(c) ==
    IF c.offset_answer_start = -1 /\ c.offset_answer_end = -1 THEN 0
    ELSE IF c.offset_answer_start >= 0 THEN token_offsets[c.offset_answer_start + 1]
    ELSE token_offsets[Len(token_offsets) + c.offset_answer_start + 1]

ExpectedEndChOf(c) ==
    IF c.offset_answer_start = -1 /\ c.offset_answer_end = -1 THEN 0
    ELSE IF c.offset_answer_end + 1 < Len(token_offsets)
         THEN token_offsets[c.offset_answer_end + 2]
         ELSE Len(context)

\* C11: a call of answers_to_json that returns emits exactly one record per
\* candidate, record i built from candidate i in the order the aggregate
\* holds them (never re-sorted by score); and every call, returning or
\* raising, leaves the candidate list and every candidate's fields unchanged.
C11_OneRecordPerCandidateInOrder ==
    [][op'.name = "answers_to_json"
       => /\ prediction' = prediction
          /\ ret'[1].exc = "none"
                => /\ Len(ret'[1].answers) = Len(prediction)
                   /\ \A i \in 1 .. Len(prediction) :
                         LET r == ret'[1].answers[i]
                             c == prediction[i]
                         IN  /\ r.score = c.score
                             /\ r.answer = IF op'.args[1] /\ c.answer = Some("no_answer")
                                           THEN Some("") ELSE c.answer
                             /\ r.offset_answer_start = ExpectedStartCh(c)
                             /\ r.offset_answer_end = ExpectedEndChOf(c)]_vars

\* C11 witness: the call returned two records for two candidates held in
\* ascending order of score, the first record from the first candidate (a
\* no-answer of score 1), the second from the second (a span of score 2).
C11_Witness ==
    /\ JsonCalled
    /\ Len(prediction) = 2
    /\ prediction[1].score = 1 /\ prediction[1].answer = Some("no_answer")
    /\ prediction[2].score = 2 /\ prediction[2].answer = Some("Paris")
    /\ Result.exc = "none"
    /\ Len(Result.answers) = 2
    /\ Result.answers[1].score = 1 /\ Result.answers[1].answer = Some("no_answer")
    /\ Result.answers[2].score = 2 /\ Result.answers[2].answer = Some("Paris")

\* C12: each record answers_to_json emits carries the score and the
\* probability of the candidate it was built from, a probability that is not
\* None included.
C12_RecordCarriesScoreAndProbability ==
    (JsonCalled /\ Result.exc = "none")
    => \A i \in 1 .. Len(Result.answers) :
          /\ Result.answers[i].score = prediction[i].score
          /\ Result.answers[i].probability = prediction[i].probability

\* The squad-mode list sq and the plain list agree position by position on
\* every field but answer, and answer differs exactly where the plain answer
\* is "no_answer", the squad answer being "" there.
SquadAgrees(sq, plain) ==
    /\ Len(sq) = Len(plain)
    /\ \A i \in 1 .. Len(plain) :
          /\ [sq[i] EXCEPT !.answer = plain[i].answer] = plain[i]
          /\ IF plain[i].answer = Some("no_answer")
             THEN sq[i].answer = Some("")
             ELSE sq[i].answer = plain[i].answer

\* C13: answers_to_json(squad = True) and answers_to_json(squad = False)
\* return lists of equal length that agree on every field except answer,
\* which differs only where the plain answer is "no_answer" and is then "";
\* the same holds between to_squad_eval and to_json(); and the two modes
\* raise on the same aggregates.
C13_SquadDiffersOnlyInNoAnswer ==
    /\ (JsonCalled /\ op.args = <<TRUE>>)
       => LET plain == answers_to_json(prediction, token_offsets, context,
                                       context_window_size, DocumentId, FALSE)
          IN  /\ Result.exc = plain.exc
              /\ SquadAgrees(Result.answers, plain.answers)
    /\ op.name = "to_squad_eval"
       => LET plain == to_json(prediction, token_offsets, context,
                               context_window_size, DocumentId, FALSE)
          IN  /\ Result.exc = plain.exc
              /\ Result.task = plain.task
              /\ Len(Result.predictions) = Len(plain.predictions)
              /\ \A k \in 1 .. Len(plain.predictions) :
                    /\ [Result.predictions[k] EXCEPT
                           !.answers = plain.predictions[k].answers]
                          = plain.predictions[k]
                    /\ SquadAgrees(Result.predictions[k].answers,
                                   plain.predictions[k].answers)

\* C13 witness: to_squad_eval returned the envelope for a no-answer candidate
\* followed by a span: the first answer is "", the second is "Paris".
C13_Witness ==
    /\ op.name = "to_squad_eval"
    /\ Len(prediction) = 2
    /\ prediction[1].answer = Some("no_answer")
    /\ prediction[2].answer = Some("Paris")
    /\ Result.exc = "none"
    /\ Len(Result.predictions) = 1
    /\ Result.predictions[1].answers[1].answer = Some("")
    /\ Result.predictions[1].answers[2].answer = Some("Paris")

(***************************************************************************)
(* The candidate invariant and add_answer (checked under Spec).            *)
(***************************************************************************)
\* answer_type is no_answer exactly when both offsets are -1.
KindIffSentinel(c) ==
    (c.answer_type = "no_answer")
       <=> (c.offset_answer_start = -1 /\ c.offset_answer_end = -1)

\* C14 as claimed: from a candidate created with answer_type = no_answer
\* exactly when both offsets are -1, that equivalence holds in every state
\* reached by add_answer, add_cls and to_doc_level.
C14_KindIffSentinelAlways == KindIffSentinel(cand)

\* C14 amended: from a state where the equivalence holds, add_answer keeps
\* it; to_doc_level(start, end) keeps it exactly when (start, end) = (-1, -1)
\* for a no_answer candidate and differs from (-1, -1) for any other; and
\* add_cls keeps it except when it rewrites a no_answer candidate, which it
\* does when the label is yes or no and the answer is not "no_answer".
C14_InvariantPreservation ==
    [][KindIffSentinel(cand)
       => /\ op'.name = "add_answer" => KindIffSentinel(cand')
          /\ op'.name = "to_doc_level"
                => (KindIffSentinel(cand')
                      <=> ((op'.args = <<-1, -1>>)
                              <=> (cand.answer_type = "no_answer")))
          /\ op'.name = "add_cls"
                => (KindIffSentinel(cand')
                      <=> ~(/\ cand.answer_type = "no_answer"
                            /\ op'.args[1] \in YesNo
                            /\ cand.answer # Some("no_answer")))]_vars

\* C14 witness: to_doc_level(0, 0) has moved a no_answer candidate, whose
\* answer add_answer had set to "no_answer", off the sentinel offsets.
C14_Witness ==
    /\ op.name = "to_doc_level" /\ op.args = <<0, 0>>
    /\ cand.answer_type = "no_answer"
    /\ cand.answer = Some("no_answer")
    /\ cand.offset_answer_start = 0 /\ cand.offset_answer_end = 0
    /\ cand.aggregation_level = "document"

EmptyAnswerGiven == op'.name = "add_answer" /\ op'.args = <<"">>

\* One error is reported exactly when the offsets are not both -1.
ReportsOffsetsOfEmptyAnswer ==
    logged' = IF cand.offset_answer_start # -1 \/ cand.offset_answer_end # -1
              THEN 1 ELSE 0

OffsetsKept ==
    /\ cand'.offset_answer_start = cand.offset_answer_start
    /\ cand'.offset_answer_end = cand.offset_answer_end

\* C15 as claimed: add_answer("") sets answer_type to no_answer whatever it
\* was, reports an error when the offsets are not both -1, and leaves the
\* offsets unchanged.
C15_EmptyAnswerSetsKind ==
    [][EmptyAnswerGiven
       => /\ cand'.answer_type = "no_answer"
          /\ ReportsOffsetsOfEmptyAnswer
          /\ OffsetsKept]_vars

\* C15 amended: add_answer("") sets answer to "no_answer" and leaves
\* answer_type as it was, reports one error exactly when the offsets are not
\* both -1, and leaves the offsets and every other field unchanged.
C15_EmptyAnswerSetsAnswerText ==
    [][EmptyAnswerGiven
       => /\ cand'.answer = Some("no_answer")
          /\ cand'.answer_type = cand.answer_type
          /\ ReportsOffsetsOfEmptyAnswer
          /\ OffsetsKept
          /\ cand' = [cand EXCEPT !.answer = Some("no_answer")]]_vars

\* C15 witness: add_answer("") on a span candidate at offsets (-1, 0): the
\* answer is "no_answer", the type is still span, one error was reported and
\* the offsets are as they were.
C15_Witness ==
    /\ op.name = "add_answer" /\ op.args = <<"">>
    /\ cand.answer = Some("no_answer")
    /\ cand.answer_type = "span"
    /\ logged = 1
    /\ cand.offset_answer_start = -1 /\ cand.offset_answer_end = 0
    /\ cand.aggregation_level = "passage"

(***************************************************************************)
(* Bounds of the window (checked under SpecWindow).                        *)
(***************************************************************************)
\* The bounds lie in the text, in order, and the text returned is the slice
\* between them.
WindowWithinText ==
    /\ 0 <= Result.start_ch
    /\ Result.start_ch <= Result.end_ch
    /\ Result.end_ch <= Len(context)
    /\ Result.text = SubSeq(context, Result.start_ch + 1, Result.end_ch)

Placeholder == AnsStart = 0 /\ AnsEnd = 0

\* The window holds the point mid, when mid lies in the text and the span is
\* not the (0, 0) placeholder.
WindowHolds(mid) ==
    (0 <= mid /\ mid <= Len(context) /\ ~Placeholder)
    => (Result.start_ch <= mid /\ mid <= Result.end_ch)

\* floor((ans_end - ans_start) / 2) + ans_start
FloorMidpoint == ((AnsEnd - AnsStart) \div 2) + AnsStart

\* (ans_end - ans_start) / 2 truncated toward zero, + ans_start
TruncatedMidpoint ==
    IF AnsEnd >= AnsStart
    THEN ((AnsEnd - AnsStart) \div 2) + AnsStart
    ELSE AnsStart - ((AnsStart - AnsEnd) \div 2)

\* C16 as claimed: for ans_start, ans_end >= 0 and window_size >= 0 the
\* bounds satisfy 0 <= start <= end <= length(clear_text), the text is
\* clear_text[start:end], and the window holds the midpoint
\* floor((ans_end - ans_start) / 2) + ans_start when that lies in the text.
C16_WindowHoldsFloorMidpoint ==
    WindowCalled => (WindowWithinText /\ WindowHolds(FloorMidpoint))

\* C16 amended: the same, with the midpoint the code computes: (ans_end -
\* ans_start) / 2 truncated toward zero, + ans_start, which is the floor
\* midpoint whenever ans_end >= ans_start.
C16_WindowHoldsTruncatedMidpoint ==
    WindowCalled
    => /\ WindowWithinText
       /\ WindowHolds(TruncatedMidpoint)
       /\ AnsEnd >= AnsStart => WindowHolds(FloorMidpoint)

\* C16 witness: the reversed span (1, 0) with window size 0 in a text of 3
\* characters: the window is [1, 1), at the truncated midpoint 1 and not at
\* the floor midpoint 0.
C16_Witness ==
    /\ WindowCalled
    /\ AnsStart = 1 /\ AnsEnd = 0
    /\ context_window_size = 0 /\ Len(context) = 3
    /\ Result.start_ch = 1 /\ Result.end_ch = 1
    /\ Result.text = <<>>

====
